---- MODULE Spec2Model ----
(***************************************************************************)
(* State-machine model of snakemq/queues.py: Item, Queue, QueuesManager    *)
(* and SqliteQueuesStorage.  One action per public call; every action      *)
(* models the whole call, storage statements and commit included.          *)
(*                                                                         *)
(* Time is integral (time.time() is read from the variable now), TTLs are  *)
(* integers.  The sqlite connection is modelled by two copies of the items *)
(* table: rows is what the open connection sees (pending statements        *)
(* included), disk is what has been committed.  conn.commit() copies rows  *)
(* to disk, conn.close() drops what is pending.                            *)
(***************************************************************************)
EXTENDS Integers, Sequences, FiniteSets, TLC

\* ------------------------------------------------------------------ bounds
MaxTime == 2        \* the clock runs 0..MaxTime
MaxItems == 2       \* number of Item objects the caller ever creates
MaxFaults == 1      \* number of storage faults injected
MaxCalls == 5       \* number of calls made on the manager and its queues

\* --------------------------------------------------------------- constants
FLAG_PERSISTENT == 1

Names == {"A", "B"}
NameOrder == <<"A", "B">>          \* collation order of the queue names
TTLs == {-1, 0, 1}                 \* ttl values the caller pushes
Flags == {0, 1}                    \* flag words the caller pushes
NoFault == <<>>                    \* a storage call no medium fault strikes

\* payload of the item the caller creates with a uuid
DataOf(uuid) == IF uuid % 2 = 1 THEN "x" ELSE "y"

VARIABLES
    now,        \* time.time()
    storage,    \* QueuesManager.storage: "open" or "None" (after close)
    queues,     \* QueuesManager.queues, in insertion order
    rows,       \* items table as the connection sees it, in rowid order
    disk,       \* items table as committed
    handle,     \* Queue instance the caller last got from get_queue, by name
    last,       \* the call just made: op, queue name, error raised, return
    closed,     \* the last close(): its time and the queues it dropped; and
                \* the time the manager in use was constructed
    nextUuid,   \* uuids handed out by the caller so far
    faults,     \* storage faults injected so far
    calls       \* calls made so far

vars == <<now, storage, queues, rows, disk, handle, last, closed, nextUuid,
          faults, calls>>

\* ----------------------------------------------------------------- helpers
Item(uuid, data, ttl, flags) ==
    [uuid |-> uuid, data |-> data, ttl |-> ttl, flags |-> flags]

\* item.flags & FLAG_PERSISTENT
Persistent(item) == (item.flags \div FLAG_PERSISTENT) % 2 = 1

Range(s) == {s[i] : i \in 1..Len(s)}

Min(a, b) == IF a < b THEN a ELSE b

\* index of the registry entry of a name, 0 when the name is not a key
RECURSIVE IndexOf(_, _, _)
IndexOf(qs, name, i) ==
    IF i > Len(qs) THEN 0
    ELSE IF qs[i].name = name THEN i
    ELSE IndexOf(qs, name, i + 1)

Registered(qs, name) == IndexOf(qs, name, 1) # 0
QueueOf(qs, name) == qs[IndexOf(qs, name, 1)]

Call(op, name, err, ret) == [op |-> op, name |-> name, err |-> err, ret |-> ret]

\* ----------------------------------------------------- SqliteQueuesStorage
\* faulty variant: every known name is listed, with or without records
get_queues_all(rs) == NameOrder

\* SELECT queue_name FROM items GROUP BY queue_name
get_queues(rs) ==
    SelectSeq(NameOrder, LAMBDA n : \E i \in 1..Len(rs) : rs[i].queue_name = n)

RowToItem(r) == Item(r.uuid, r.data, r.ttl, r.flags)

\* SELECT uuid, data, ttl, flags FROM items WHERE queue_name = ?
get_items(rs, name) ==
    LET sel == SelectSeq(rs, LAMBDA r : r.queue_name = name)
    IN  [i \in 1..Len(sel) |-> RowToItem(sel[i])]

ExecInsert(rs, name, item) ==
    Append(rs, [queue_name |-> name, uuid |-> item.uuid, data |-> item.data,
                ttl |-> item.ttl, flags |-> item.flags])

ExecDelete(rs, uuid) == SelectSeq(rs, LAMBDA r : r.uuid # uuid)

\* faulty variant: the UPDATE writes nothing
ExecUpdateSkipped(rs, uuid, ttl) == rs

ExecUpdate(rs, uuid, ttl) ==
    [i \in 1..Len(rs) |->
        IF rs[i].uuid = uuid THEN [rs[i] EXCEPT !.ttl = ttl] ELSE rs[i]]

\* an object has the attribute uuid
HasUuid(x) == "uuid" \in DOMAIN x

\* first index whose element has no attribute uuid, Len + 1 when all have
RECURSIVE FirstBad(_, _)
FirstBad(items, i) ==
    IF i > Len(items) THEN i
    ELSE IF HasUuid(items[i]) THEN FirstBad(items, i + 1)
    ELSE i

\* A storage call runs its statements in order and commits.  fault = NoFault:
\* no medium fault; fault = <<f>>: the statement after the first f raises
\* (f = number of statements: the commit raises).  What ran before an error
\* stays pending in the connection.
Outcome(rs, dk, err) == [rows |-> rs, disk |-> dk, err |-> err]

Committed(rs) == Outcome(rs, rs, "")

storage_push(rs, dk, name, item, fault) ==
    IF fault = NoFault THEN Committed(ExecInsert(rs, name, item))
    ELSE IF fault[1] = 0 THEN Outcome(rs, dk, "StorageError")
    ELSE Outcome(ExecInsert(rs, name, item), dk, "StorageError")

RECURSIVE DeleteLoop(_, _, _)
DeleteLoop(rs, items, k) ==
    IF k = 0 THEN rs
    ELSE ExecDelete(DeleteLoop(rs, items, k - 1), items[k].uuid)

delete_items(rs, dk, items, fault) ==
    LET bad == FirstBad(items, 1)
        n == Len(items)
    IN  IF bad <= n /\ (fault = NoFault \/ fault[1] >= bad - 1)
        THEN Outcome(DeleteLoop(rs, items, bad - 1), dk, "AttributeError")
        ELSE IF fault # NoFault
        THEN Outcome(DeleteLoop(rs, items, Min(fault[1], n)), dk, "StorageError")
        ELSE Committed(DeleteLoop(rs, items, n))

RECURSIVE UpdateLoop(_, _, _)
UpdateLoop(rs, items, k) ==
    IF k = 0 THEN rs
    ELSE ExecUpdate(UpdateLoop(rs, items, k - 1), items[k].uuid, items[k].ttl)

\* faulty variant: an UPDATE that matches no row is an error
update_items_ttl_strict(rs, dk, items, fault) ==
    IF \E i \in 1..Len(items) : \A r \in Range(rs) : r.uuid # items[i].uuid
    THEN Outcome(rs, dk, "KeyError")
    ELSE IF fault # NoFault
    THEN Outcome(UpdateLoop(rs, items, Min(fault[1], Len(items))), dk,
                 "StorageError")
    ELSE Committed(UpdateLoop(rs, items, Len(items)))

update_items_ttl(rs, dk, items, fault) ==
    LET n == Len(items)
    IN  IF fault # NoFault
        THEN Outcome(UpdateLoop(rs, items, Min(fault[1], n)), dk, "StorageError")
        ELSE Committed(UpdateLoop(rs, items, n))

\* ------------------------------------------------------------------- Queue
\* faulty variant: the constructor does not call disconnect(), the clock of
\* the queue starts at the epoch
QueueInitUnstamped(name, inst, rs, t) ==
    [name |-> name, inst |-> inst, queue |-> get_items(rs, name),
     last_disconnect_absolute |-> 0, entered |-> <<0, nextUuid>>]

\* Queue.__init__: load_persistent_data(), then disconnect().  entered is
\* not a field of the object: it records the time t0 of the first disconnect()
\* call since the queue was last connected (the constructor makes one) and
\* the uuids handed out before the last disconnect() call made at t0, and is
\* <<>> while the queue is connected
QueueInit(name, inst, rs, t) ==
    [name |-> name, inst |-> inst, queue |-> get_items(rs, name),
     last_disconnect_absolute |-> t, entered |-> <<t, nextUuid>>]

\* Queue(queue_name, self) is a new object: its identity differs from that
\* of the Queue the caller holds for the name (held = 0: the caller holds none)
NewInst(held) == IF held = 1 THEN 2 ELSE 1

\* QueuesManager.load_from_storage on an empty registry
load_from_storage(rs, t, held) ==
    LET names == get_queues(rs)
    IN  [i \in 1..Len(names) |->
            QueueInit(names[i], NewInst(held[names[i]]), rs, t)]

\* self.queue.append(item)
Pushed(items, item) == Append(items, item)

\* self.queue[0], or None
Front(items) == IF Len(items) > 0 THEN <<items[1]>> ELSE <<>>

\* faulty variant: self.queue.pop() takes the newest item
PoppedLast(items) ==
    [item |-> items[Len(items)], rest |-> SubSeq(items, 1, Len(items) - 1)]

\* item = self.queue.pop(0)
Popped(items) == [item |-> Head(items), rest |-> Tail(items)]

\* faulty variant: the operands of the subtraction swapped
DiffSwapped(t, q) == q.last_disconnect_absolute - t

\* diff = time.time() - self.last_disconnect_absolute
Diff(t, q) == t - q.last_disconnect_absolute

\* the loop of Queue.connect: every item's ttl is decreased in place
Decayed(items, diff) ==
    [i \in 1..Len(items) |-> [items[i] EXCEPT !.ttl = items[i].ttl - diff]]

\* faulty variant: an item whose ttl reached exactly 0 is dropped
SurvivesStrict(item) == item.ttl > 0

\* item.ttl >= 0, "must include 0"
Survives(item) == item.ttl >= 0

\* self.last_disconnect_absolute = time.time()
Disconnected(q, t) ==
    [q EXCEPT !.last_disconnect_absolute = t,
              !.entered = IF @ = <<>> THEN <<t, nextUuid>>
                          ELSE IF @[1] = t THEN <<t, nextUuid>>
                          ELSE @]

Init ==
    /\ now = 0
    /\ storage = "open"
    /\ queues = <<>>
    /\ rows = <<>>
    /\ disk = <<>>
    /\ handle = [n \in Names |-> 0]
    /\ last = Call("init", "", "", <<>>)
    /\ closed = [at |-> 0, queues |-> <<>>, opened |-> 0]
    /\ nextUuid = 0
    /\ faults = 0
    /\ calls = 0

\* wall-clock time passes
Tick ==
    /\ now < MaxTime
    /\ now' = now + 1
    /\ last' = Call("tick", "", "", <<>>)
    /\ UNCHANGED <<storage, queues, rows, disk, handle, closed, nextUuid,
                   faults, calls>>

\* one more call is made
Counted == calls < MaxCalls /\ calls' = calls + 1

\* ----------------------------------------------------------- registry edits
SetQueue(qs, name, items) ==
    [i \in 1..Len(qs) |->
        IF qs[i].name = name THEN [qs[i] EXCEPT !.queue = items] ELSE qs[i]]

\* self.queue[:] = fresh_queue: connect() has returned, the queue is connected
SetConnected(qs, name, items) ==
    [i \in 1..Len(qs) |->
        IF qs[i].name = name
        THEN [qs[i] EXCEPT !.queue = items, !.entered = <<>>]
        ELSE qs[i]]

FaultPoints(n) ==
    {NoFault} \cup (IF faults < MaxFaults THEN {<<f>> : f \in 0..n} ELSE {})

\* a medium fault can strike a storage call of n statements at a statement,
\* or at the commit when there is something to commit
CanRaise(n, fault, pending) ==
    \/ fault[1] < n
    \/ fault[1] = n /\ (n > 0 \/ pending)

Charge(fault) == IF fault = NoFault THEN faults ELSE faults + 1

\* a Python str object: it has no attribute uuid
PyStr(s) == [str |-> s]

\* ------------------------------------------------------------ Queue actions
\* Queue.push(item)
push(name, item, fault) ==
    /\ Counted
    /\ Registered(queues, name)
    /\ nextUuid < MaxItems
    /\ item.uuid = nextUuid + 1
    /\ Persistent(item) \/ fault = NoFault
    /\ LET q == QueueOf(queues, name)
           r == IF Persistent(item)
                THEN storage_push(rows, disk, name, item, fault)
                ELSE Outcome(rows, disk, "")
       IN  /\ queues' = SetQueue(queues, name, Pushed(q.queue, item))
           /\ rows' = r.rows
           /\ disk' = r.disk
           /\ last' = Call("push", name, r.err, <<>>)
    /\ nextUuid' = nextUuid + 1
    /\ faults' = Charge(fault)
    /\ UNCHANGED <<now, storage, handle, closed>>

\* Queue.get()
get(name) ==
    /\ Counted
    /\ Registered(queues, name)
    /\ last' = Call("get", name, "", Front(QueueOf(queues, name).queue))
    /\ UNCHANGED <<now, storage, queues, rows, disk, handle, closed, nextUuid,
                   faults>>

\* Queue.pop(): delete_items is handed a list of uuid strings.  No statement
\* is reached with that argument, so no medium fault can strike here.
pop(name) ==
    /\ Counted
    /\ Registered(queues, name)
    /\ LET q == QueueOf(queues, name)
       IN  IF Len(q.queue) = 0
           THEN /\ last' = Call("pop", name, "", <<>>)
                /\ UNCHANGED <<queues, rows, disk>>
           ELSE LET p == Popped(q.queue)
                    r == IF Persistent(p.item)
                         THEN delete_items(rows, disk, <<PyStr(p.item.uuid)>>,
                                           NoFault)
                         ELSE Outcome(rows, disk, "")
                IN  /\ queues' = SetQueue(queues, name, p.rest)
                    /\ rows' = r.rows
                    /\ disk' = r.disk
                    /\ last' = Call("pop", name, r.err, <<>>)
    /\ UNCHANGED <<now, storage, handle, closed, nextUuid, faults>>

\* Queue.connect(); site names the storage call a medium fault strikes
connect(name, site, fault) ==
    /\ Counted
    /\ Registered(queues, name)
    /\ site \in {"none", "update", "delete"}
    /\ (site = "none") = (fault = NoFault)
    /\ LET q == QueueOf(queues, name)
           aged == Decayed(q.queue, Diff(now, q))
           fresh_queue == SelectSeq(aged, Survives)
           storage_update_ttls == SelectSeq(fresh_queue, Persistent)
           storage_to_delete ==
               SelectSeq(aged, LAMBDA it : ~Survives(it) /\ Persistent(it))
           r1 == update_items_ttl(rows, disk, storage_update_ttls,
                                  IF site = "update" THEN fault ELSE NoFault)
           r2 == delete_items(r1.rows, r1.disk, storage_to_delete,
                              IF site = "delete" THEN fault ELSE NoFault)
       IN  /\ site = "update" =>
                 CanRaise(Len(storage_update_ttls), fault, rows # disk)
           /\ site = "delete" =>
                 CanRaise(Len(storage_to_delete), fault, r1.rows # r1.disk)
           /\ IF r1.err # ""
              THEN /\ queues' = SetQueue(queues, name, aged)
                   /\ rows' = r1.rows
                   /\ disk' = r1.disk
                   /\ last' = Call("connect", name, r1.err, <<>>)
              ELSE IF r2.err # ""
              THEN /\ queues' = SetQueue(queues, name, aged)
                   /\ rows' = r2.rows
                   /\ disk' = r2.disk
                   /\ last' = Call("connect", name, r2.err, <<>>)
              ELSE /\ queues' = SetConnected(queues, name, fresh_queue)
                   /\ rows' = r2.rows
                   /\ disk' = r2.disk
                   /\ last' = Call("connect", name, "", <<>>)
    /\ faults' = Charge(fault)
    /\ UNCHANGED <<now, storage, handle, closed, nextUuid>>

\* Queue.disconnect()
disconnect(name) ==
    /\ Counted
    /\ Registered(queues, name)
    /\ queues' = [i \in 1..Len(queues) |->
                    IF queues[i].name = name
                    THEN Disconnected(queues[i], now)
                    ELSE queues[i]]
    /\ last' = Call("disconnect", name, "", <<>>)
    /\ UNCHANGED <<now, storage, rows, disk, handle, closed, nextUuid, faults>>

\* ---------------------------------------------------- QueuesManager actions
\* faulty variant: the lookup in self.queues is skipped, every call constructs
\* and registers a Queue
get_queue_fresh(name) ==
    /\ Counted
    /\ IF storage = "None"
       THEN /\ last' = Call("get_queue", name, "AttributeError", <<>>)
            /\ UNCHANGED <<queues, handle>>
       ELSE /\ queues' = Append(SelectSeq(queues, LAMBDA q : q.name # name),
                    QueueInit(name, NewInst(handle[name]), rows, now))
            /\ handle' = [handle EXCEPT ![name] = NewInst(handle[name])]
            /\ last' = Call("get_queue", name, "", <<>>)
    /\ UNCHANGED <<now, storage, rows, disk, closed, nextUuid, faults>>

\* QueuesManager.get_queue(queue_name); after close() self.storage is None
\* and the Queue constructor raises before the queue is registered
get_queue(name) ==
    /\ Counted
    /\ IF Registered(queues, name)
       THEN /\ handle' = [handle EXCEPT ![name] = QueueOf(queues, name).inst]
            /\ last' = Call("get_queue", name, "", <<>>)
            /\ UNCHANGED queues
       ELSE IF storage = "None"
       THEN /\ last' = Call("get_queue", name, "AttributeError", <<>>)
            /\ UNCHANGED <<queues, handle>>
       ELSE /\ queues' = Append(queues,
                    QueueInit(name, NewInst(handle[name]), rows, now))
            /\ handle' = [handle EXCEPT ![name] = NewInst(handle[name])]
            /\ last' = Call("get_queue", name, "", <<>>)
    /\ UNCHANGED <<now, storage, rows, disk, closed, nextUuid, faults>>

\* not queue, that is len(queue) == 0
Empty(q) == Len(q.queue) = 0

\* index of the first empty queue of the registry, 0 when there is none
RECURSIVE FirstEmpty(_, _)
FirstEmpty(qs, i) ==
    IF i > Len(qs) THEN 0
    ELSE IF Empty(qs[i]) THEN i
    ELSE FirstEmpty(qs, i + 1)

RemoveAt(qs, k) ==
    [i \in 1..(Len(qs) - 1) |-> IF i < k THEN qs[i] ELSE qs[i + 1]]

\* QueuesManager.cleanup().  live = FALSE: items() is a list copy (Python 2)
\* and every empty queue is deleted; live = TRUE: items() is a view of the
\* dict (Python 3), and the step of the iteration after the first deletion
\* raises RuntimeError
cleanup(live) ==
    /\ Counted
    /\ storage = "open"
    /\ LET k == FirstEmpty(queues, 1)
       IN  IF live /\ k # 0
           THEN /\ queues' = RemoveAt(queues, k)
                /\ last' = Call("cleanup", "", "RuntimeError", <<>>)
           ELSE /\ queues' = SelectSeq(queues, LAMBDA q : ~Empty(q))
                /\ last' = Call("cleanup", "", "", <<>>)
    /\ UNCHANGED <<now, storage, rows, disk, handle, closed, nextUuid, faults>>

\* faulty variant: self.queues.clear() is left out
close_registry_kept ==
    /\ Counted
    /\ storage = "open"
    /\ queues' = queues
    /\ rows' = disk
    /\ storage' = "None"
    /\ handle' = [n \in Names |-> 0]
    /\ last' = Call("close", "", "", <<>>)
    /\ closed' = [closed EXCEPT !.at = now, !.queues = queues]
    /\ UNCHANGED <<now, disk, nextUuid, faults>>

\* QueuesManager.close(): conn.close() drops what is pending
close ==
    /\ Counted
    /\ storage = "open"
    /\ queues' = <<>>
    /\ rows' = disk
    /\ storage' = "None"
    /\ handle' = [n \in Names |-> 0]
    /\ last' = Call("close", "", "", <<>>)
    /\ closed' = [closed EXCEPT !.at = now, !.queues = queues]
    /\ UNCHANGED <<now, disk, nextUuid, faults>>

\* SqliteQueuesStorage(filename) over the same file, then QueuesManager(storage)
reopen ==
    /\ Counted
    /\ storage = "None"
    /\ rows' = disk
    /\ queues' = load_from_storage(disk, now, handle)
    /\ storage' = "open"
    /\ last' = Call("reopen", "", "", <<>>)
    /\ closed' = [closed EXCEPT !.opened = now]
    /\ UNCHANGED <<now, disk, handle, nextUuid, faults>>

Next ==
    \/ Tick
    \/ \E n \in Names : get_queue(n)
    \/ \E n \in Names, t \in TTLs, f \in Flags, fault \in FaultPoints(1) :
          push(n, Item(nextUuid + 1, DataOf(nextUuid + 1), t, f), fault)
    \/ \E n \in Names : get(n)
    \/ \E n \in Names : pop(n)
    \/ \E n \in Names, site \in {"none", "update", "delete"},
          fault \in FaultPoints(MaxItems) : connect(n, site, fault)
    \/ \E n \in Names : disconnect(n)
    \/ \E live \in BOOLEAN : cleanup(live)
    \/ close
    \/ reopen

Spec == Init /\ [][Next]_vars

\* ------------------------------------------------------------------ claims
Uuids(items) == {items[i].uuid : i \in 1..Len(items)}

\* position of the item with a uuid in a sequence
Pos(items, uuid) == CHOOSE k \in 1..Len(items) : items[k].uuid = uuid

\* the call just made was op on the queue of a name
Did(op, n) == last'.op = op /\ last'.name = n

\* uuids are handed out in push order: the sequence is in push order
InPushOrder(items) ==
    \A i, j \in 1..Len(items) : i < j => items[i].uuid < items[j].uuid

\* the item pushed first among those of a non-empty sequence
Oldest(items) ==
    CHOOSE it \in Range(items) : \A o \in Range(items) : it.uuid <= o.uuid

\* C1: every in-memory sequence is in push order; get() returns the item
\* pushed first among those present (None when empty); and a call other than
\* connect leaves a queue as it was, appends one item at its end, or removes
\* its front item.
C1_Step ==
    /\ \A k \in 1..Len(queues') : InPushOrder(queues'[k].queue)
    /\ \A n \in Names :
          Registered(queues, n) /\ Registered(queues', n) =>
            LET old == QueueOf(queues, n).queue
                new == QueueOf(queues', n).queue
            IN  /\ Did("get", n) =>
                      last'.ret = IF Len(old) = 0 THEN <<>>
                                  ELSE <<Oldest(old)>>
                /\ last'.op # "connect" =>
                      \/ new = old
                      \/ Len(new) = Len(old) + 1
                            /\ SubSeq(new, 1, Len(old)) = old
                      \/ Len(old) > 0 /\ new = Tail(old)
                /\ Did("pop", n) /\ Len(old) > 0 => new = Tail(old)
                /\ Did("push", n) => Len(new) = Len(old) + 1

C1_FIFO == [][C1_Step]_vars

\* get() has just returned the front of a queue holding several items
C1_Witness ==
    /\ last.op = "get"
    /\ Registered(queues, last.name)
    /\ Len(QueueOf(queues, last.name).queue) >= 2
    /\ last.ret = <<QueueOf(queues, last.name).queue[1]>>

\* C2: pop() on a non-empty queue removes exactly the front item and raises
\* nothing, and no storage record with the uuid of a removed PERSISTENT item
\* is left; pop() on an empty queue changes nothing and raises nothing.
C2_Step ==
    \A n \in Names :
      Did("pop", n) =>
        LET old == QueueOf(queues, n).queue
        IN  IF Len(old) = 0
            THEN /\ last'.err = ""
                 /\ queues' = queues /\ rows' = rows /\ disk' = disk
            ELSE /\ last'.err = ""
                 /\ QueueOf(queues', n).queue = Tail(old)
                 /\ Persistent(Head(old)) =>
                       \A r \in Range(rows') \cup Range(disk') :
                           r.uuid # Head(old).uuid

C2_Pop == [][C2_Step]_vars

\* C3: a call other than connect changes the ttl of no item; disconnect()
\* changes no queue content and no storage content and records the time;
\* only disconnect() moves the recorded time; connect() decreases the ttl of
\* every item it keeps by exactly the time since the recorded disconnect.
C3_Step ==
    /\ last'.op = "tick" => queues' = queues /\ rows' = rows /\ disk' = disk
    /\ \A n \in Names :
          Registered(queues, n) /\ Registered(queues', n) =>
            LET q == QueueOf(queues, n)
                p == QueueOf(queues', n)
            IN  /\ ~Did("connect", n) =>
                      \A i \in 1..Len(p.queue) :
                          \/ p.queue[i] \in Range(q.queue)
                          \/ Did("push", n) /\ i = Len(p.queue)
                /\ Did("disconnect", n) =>
                      /\ p.queue = q.queue
                      /\ p.last_disconnect_absolute = now
                      /\ rows' = rows /\ disk' = disk
                /\ ~Did("disconnect", n) =>
                      p.last_disconnect_absolute = q.last_disconnect_absolute
                /\ Did("connect", n) =>
                      \A i \in 1..Len(p.queue) :
                          /\ p.queue[i].uuid \in Uuids(q.queue)
                          /\ p.queue[i].ttl =
                               q.queue[Pos(q.queue, p.queue[i].uuid)].ttl
                                 - (now - q.last_disconnect_absolute)

C3_DecayOnlyOnReconnect == [][C3_Step]_vars

\* connect() has just succeeded some time after the recorded disconnect and
\* kept an item
C3_Witness ==
    /\ last.op = "connect" /\ last.err = ""
    /\ Registered(queues, last.name)
    /\ QueueOf(queues, last.name).last_disconnect_absolute < now
    /\ Len(QueueOf(queues, last.name).queue) > 0

\* uuid, data and flags of the items of a sequence, in order
Identity(items) ==
    [i \in 1..Len(items) |->
        [uuid |-> items[i].uuid, data |-> items[i].data,
         flags |-> items[i].flags]]

\* the items get_queue(n) holds: those of the registered queue, or those a
\* new Queue loads
Holds(qs, rs, n) ==
    IF Registered(qs, n) THEN QueueOf(qs, n).queue ELSE get_items(rs, n)

\* C4: the manager built over the storage after a close holds, for every
\* name, exactly the PERSISTENT items the queue of that name held at close
\* (same uuid, data and flags), in push order, and none of the others; stated
\* for the runs in which no storage call failed.
C4_Step ==
    last'.op = "reopen" /\ faults = 0 =>
      \A n \in Names :
        Identity(Holds(queues', rows', n)) =
          Identity(SelectSeq(Holds(closed.queues, <<>>, n), Persistent))

C4_RoundTrip == [][C4_Step]_vars

\* C5: after a connect() that raised nothing, an item of the queue is still
\* there exactly when its ttl minus the elapsed time is >= 0; the items kept
\* are in their former relative order, each once; no item is added.
C5_Step ==
    \A n \in Names :
      Did("connect", n) /\ last'.err = "" =>
        LET q == QueueOf(queues, n)
            p == QueueOf(queues', n)
            diff == now - q.last_disconnect_absolute
        IN  /\ \A j \in 1..Len(q.queue) :
                  (q.queue[j].uuid \in Uuids(p.queue))
                    <=> (q.queue[j].ttl - diff >= 0)
            /\ Uuids(p.queue) \subseteq Uuids(q.queue)
            /\ Cardinality(Uuids(p.queue)) = Len(p.queue)
            /\ \A i, j \in 1..Len(p.queue) :
                  i < j => Pos(q.queue, p.queue[i].uuid)
                             < Pos(q.queue, p.queue[j].uuid)

C5_ZeroInclusive == [][C5_Step]_vars

\* connect() has just succeeded some time after the recorded disconnect and
\* kept an item whose ttl reached exactly 0
C5_Witness ==
    /\ last.op = "connect" /\ last.err = ""
    /\ Registered(queues, last.name)
    /\ QueueOf(queues, last.name).last_disconnect_absolute < now
    /\ \E it \in Range(QueueOf(queues, last.name).queue) : it.ttl = 0

\* C6: a connect() that raised leaves the in-memory sequence as it was
\* before the call: the same items, in the same order, with the same ttl.
C6_Step ==
    \A n \in Names :
      Did("connect", n) /\ last'.err # "" =>
        QueueOf(queues', n).queue = QueueOf(queues, n).queue

C6_FailedConnectKeepsState == [][C6_Step]_vars

\* C7: after a connect() that raised nothing, every PERSISTENT item kept has
\* a storage record with its new ttl, every PERSISTENT item dropped has no
\* storage record, and the records of all other uuids are as they were.
C7_Step ==
    \A n \in Names :
      Did("connect", n) /\ last'.err = "" =>
        LET q == QueueOf(queues, n)
            p == QueueOf(queues', n)
            mine == {it.uuid : it \in {x \in Range(q.queue) : Persistent(x)}}
        IN  /\ \A it \in Range(p.queue) :
                  Persistent(it) =>
                    \E r \in Range(disk') :
                        r.uuid = it.uuid /\ r.ttl = it.ttl
            /\ \A it \in Range(q.queue) :
                  Persistent(it) /\ it.uuid \notin Uuids(p.queue) =>
                    \A r \in Range(disk') : r.uuid # it.uuid
            /\ SelectSeq(disk', LAMBDA r : r.uuid \notin mine)
                  = SelectSeq(disk, LAMBDA r : r.uuid \notin mine)

C7_ConnectMirrors == [][C7_Step]_vars

\* C8: nothing in storage changes while no manager is open; a manager built
\* over the storage loads every item with its stored ttl and starts the
\* clock of every queue at its own construction; and a connect() decreases
\* a ttl by no more than the time since the manager in use was constructed.
C8_Step ==
    /\ storage = "None" /\ storage' = "None" => disk' = disk
    /\ last'.op = "reopen" =>
          /\ disk' = disk
          /\ \A k \in 1..Len(queues') :
                /\ queues'[k].last_disconnect_absolute = now
                /\ queues'[k].queue = get_items(disk, queues'[k].name)
    /\ \A n \in Names :
          Did("connect", n) =>
            LET q == QueueOf(queues, n)
                p == QueueOf(queues', n)
            IN  \A i \in 1..Len(p.queue) :
                    p.queue[i].ttl >=
                      q.queue[Pos(q.queue, p.queue[i].uuid)].ttl
                        - (now - closed.opened)

C8_DowntimeNotCharged == [][C8_Step]_vars

\* after a downtime, and some time after the new manager was built, a
\* connect() has just succeeded and kept a PERSISTENT item
C8_Witness ==
    /\ last.op = "connect" /\ last.err = ""
    /\ closed.at < closed.opened /\ closed.opened < now
    /\ Registered(queues, last.name)
    /\ \E it \in Range(QueueOf(queues, last.name).queue) : Persistent(it)

\* C9 as stated: within one manager's lifetime, a get_queue call returns the
\* instance an earlier get_queue call with the same name returned.
C9_OriginalStep ==
    \A n \in Names :
      Did("get_queue", n) /\ last'.err = "" /\ handle[n] # 0 =>
        handle'[n] = handle[n]

C9_SameInstanceAlways == [][C9_OriginalStep]_vars

\* C9 as amended: the registry holds at most one queue per name; a name that
\* stays registered keeps its instance; get_queue returns the registered
\* instance, registering a new one only when the name is not registered; so
\* a get_queue call returns the instance an earlier call with the same name
\* returned whenever the name is still registered.
C9_Step ==
    /\ \A i, j \in 1..Len(queues') :
          queues'[i].name = queues'[j].name => i = j
    /\ \A n \in Names :
          /\ Registered(queues, n) /\ Registered(queues', n) =>
                QueueOf(queues', n).inst = QueueOf(queues, n).inst
          /\ Did("get_queue", n) /\ last'.err = "" =>
                /\ Registered(queues', n)
                /\ handle'[n] = QueueOf(queues', n).inst
                /\ Registered(queues, n) => queues' = queues
                /\ Registered(queues, n) /\ handle[n] # 0 =>
                      handle'[n] = handle[n]

C9_SameInstanceWhileRegistered == [][C9_Step]_vars

\* get_queue has just returned, for a name whose queue it did not construct,
\* the instance the caller already held
C9_Witness ==
    /\ last.op = "get_queue" /\ last.err = ""
    /\ Registered(queues, last.name)
    /\ handle[last.name] = QueueOf(queues, last.name).inst
    /\ Len(QueueOf(queues, last.name).queue) > 0
    /\ get_items(rows, last.name) = <<>>

\* C10: cleanup() raises nothing, leaves in the registry exactly the queues
\* of length > 0, in their order, and leaves the storage alone.
C10_Step ==
    last'.op = "cleanup" =>
      /\ last'.err = ""
      /\ queues' = SelectSeq(queues, LAMBDA q : Len(q.queue) > 0)
      /\ rows' = rows /\ disk' = disk

C10_Cleanup == [][C10_Step]_vars

\* C7 restricted to the runs in which no storage call failed
C7_NoFault == [][faults' = 0 => C7_Step]_vars
\* C11: close() leaves the registry empty and the storage closed; while the
\* manager is closed the registry stays empty; and a get_queue call on a
\* closed manager raises, returns no Queue and registers no queue.
C11_Step ==
    /\ last'.op = "close" => queues' = <<>> /\ storage' = "None"
    /\ storage' = "None" => queues' = <<>>
    /\ \A n \in Names :
          Did("get_queue", n) /\ storage = "None" =>
            /\ last'.err # ""
            /\ handle' = handle
            /\ queues' = queues
            /\ storage' = "None"

C11_ClosedManager == [][C11_Step]_vars

\* get_queue has just raised on a manager closed while it held a queue
C11_Witness ==
    /\ last.op = "get_queue" /\ last.err = "AttributeError"
    /\ storage = "None"
    /\ Len(closed.queues) > 0
    /\ queues = <<>>

\* C12: get() never returns an item whose ttl is below zero.
C12_Step ==
    \A n \in Names :
      Did("get", n) => \A it \in Range(last'.ret) : it.ttl >= 0

C12_NoExpiredRead == [][C12_Step]_vars

\* C13: in the runs in which no storage call failed, storage holds no record
\* under the name of a registered queue of length 0.
C13_EmptyQueueNoRows ==
    faults = 0 =>
      \A k \in 1..Len(queues) :
        Len(queues[k].queue) = 0 =>
          /\ get_items(rows, queues[k].name) = <<>>
          /\ get_items(disk, queues[k].name) = <<>>

\* the records of a table whose uuid is not in a set
Others(rs, ids) == SelectSeq(rs, LAMBDA r : r.uuid \notin ids)

\* the items of a sequence no record of a table has the uuid of
Unrecorded(items, rs) ==
    {it \in Range(items) : \A r \in Range(rs) : r.uuid # it.uuid}

\* C14: delete_items and update_items_ttl, called with an item whose uuid has
\* no record, raise nothing and leave every record as it was; and a connect()
\* no medium fault strikes raises nothing, whichever of the uuids it passes
\* to the two calls have a record, and leaves the records of all other uuids
\* as they were.
C14_Step ==
    /\ \A k \in 1..Len(queues) :
          \A it \in Unrecorded(queues[k].queue, rows) :
              /\ delete_items(rows, disk, <<it>>, NoFault) = Committed(rows)
              /\ update_items_ttl(rows, disk, <<it>>, NoFault)
                    = Committed(rows)
    /\ \A n \in Names :
          Did("connect", n) /\ faults' = faults =>
            LET q == QueueOf(queues, n).queue
                recorded == Uuids(q) \ Uuids(SelectSeq(q,
                                LAMBDA it : it \in Unrecorded(q, rows)))
            IN  /\ last'.err = ""
                /\ Others(rows', recorded) = Others(rows, recorded)
                /\ disk' = rows'

C14_MissingIds == [][C14_Step]_vars

\* connect() has just succeeded and kept a PERSISTENT item that has no
\* record: update_items_ttl was called with its uuid
C14_Witness ==
    /\ last.op = "connect" /\ last.err = ""
    /\ Registered(queues, last.name)
    /\ \E it \in Unrecorded(QueueOf(queues, last.name).queue, rows) :
          Persistent(it)

\* the records of a table under a queue name, as items, in stored order
Stored(rs, name) ==
    LET sel == SelectSeq(rs, LAMBDA r : r.queue_name = name)
    IN  [i \in 1..Len(sel) |->
            [uuid |-> sel[i].uuid, data |-> sel[i].data, ttl |-> sel[i].ttl,
             flags |-> sel[i].flags]]

\* C15: right after the construction of a manager the registered names are
\* exactly the queue names with at least one record in storage, each name is
\* registered once, and the sequence of every registered queue is the stored
\* items of its name in stored order.
C15_Step ==
    last'.op = "reopen" =>
      /\ {queues'[k].name : k \in 1..Len(queues')}
            = {r.queue_name : r \in Range(disk')}
      /\ \A i, j \in 1..Len(queues') :
            queues'[i].name = queues'[j].name => i = j
      /\ \A k \in 1..Len(queues') :
            queues'[k].queue = Stored(disk', queues'[k].name)
      /\ disk' = disk /\ rows' = disk

C15_LoadFromStorage == [][C15_Step]_vars

\* a manager has just been constructed over a storage holding several
\* records of one queue
C15_Witness ==
    /\ last.op = "reopen"
    /\ \E k \in 1..Len(queues) : Len(queues[k].queue) >= 2

\* C16: a connect() that directly follows a connect() of the same queue, no
\* time having passed and no other call having been made in between, leaves
\* the ttl of every item and the membership of the queue as the first left
\* them.
C16_Step ==
    \A n \in Names :
      /\ last.op = "connect" /\ last.name = n /\ last.err = ""
      /\ Did("connect", n) /\ last'.err = ""
      => QueueOf(queues', n).queue = QueueOf(queues, n).queue

C16_ConnectTwice == [][C16_Step]_vars

\* C17: an item pushed after the recorded disconnect is charged by connect()
\* only for the time since its push: a connect() made right after the push,
\* no time having passed since, leaves the ttl of the pushed item as it was
\* (and keeps the item when that ttl is >= 0).
C17_Step ==
    \A n \in Names :
      /\ last.op = "push" /\ last.name = n /\ last.err = ""
      /\ Did("connect", n) /\ last'.err = ""
      /\ QueueOf(queues, n).last_disconnect_absolute < now
      => LET q == QueueOf(queues, n).queue
             pushed == q[Len(q)]
         IN  pushed.ttl >= 0 => pushed \in Range(QueueOf(queues', n).queue)

C17_ChargedSincePush == [][C17_Step]_vars

\* C18: a push() whose storage insert raised leaves the in-memory sequence as
\* it was before the call.
C18_Step ==
    \A n \in Names :
      Did("push", n) /\ last'.err # "" =>
        QueueOf(queues', n).queue = QueueOf(queues, n).queue

C18_PushAllOrNothing == [][C18_Step]_vars

\* C19: a connect() of a queue on which disconnect() was called at t0 and
\* again later, with no connect() in between, charges every item that has
\* been in the queue since t0 the full time since t0: it keeps the item
\* exactly when its ttl minus that time is >= 0, with that new ttl.
C19_Step ==
    \A n \in Names :
      Did("connect", n) /\ last'.err = ""
          /\ QueueOf(queues, n).entered # <<>>
          /\ QueueOf(queues, n).entered[1]
                < QueueOf(queues, n).last_disconnect_absolute =>
        LET q == QueueOf(queues, n)
            p == QueueOf(queues', n)
            t0 == q.entered[1]
        IN  \A it \in Range(q.queue) :
                it.uuid <= q.entered[2] =>
                  IF it.ttl - (now - t0) >= 0
                  THEN [it EXCEPT !.ttl = it.ttl - (now - t0)]
                          \in Range(p.queue)
                  ELSE it.uuid \notin Uuids(p.queue)

C19_RepeatedDisconnect == [][C19_Step]_vars

\* C20: in the runs in which no storage call failed, every record that has
\* the uuid of a PERSISTENT item of a registered queue's in-memory sequence
\* has that item's ttl, in the table as the connection sees it and as
\* committed.
C20_TtlMirrored ==
    faults = 0 =>
      \A k \in 1..Len(queues) :
        \A it \in Range(queues[k].queue) :
          Persistent(it) =>
            \A r \in Range(rows) \cup Range(disk) :
                r.uuid = it.uuid => r.ttl = it.ttl

\* no storage call has failed, and a connect() some time after the recorded
\* disconnect has just kept a PERSISTENT item that has a record
C20_Witness ==
    /\ faults = 0
    /\ last.op = "connect" /\ last.err = ""
    /\ Registered(queues, last.name)
    /\ QueueOf(queues, last.name).last_disconnect_absolute < now
    /\ \E it \in Range(QueueOf(queues, last.name).queue) :
          /\ Persistent(it)
          /\ \E r \in Range(disk) : r.uuid = it.uuid

====
